---- MODULE Spec2Model ----
(***************************************************************************)
(* A model of zsu/iterator.py: the chunked reader (DataframeReader), the   *)
(* line projector (LineReader), the chunk sinks (DataframeWriter) and the  *)
(* buffers (BufferedObjectWriter, LineWriter).                             *)
(*                                                                         *)
(* A table (DataFrame) is a sequence of rows; a row is a record            *)
(* [idx |-> its index label, val |-> its content].  A chunk is a table.    *)
(* Python's None is the string "None"; an operation that raises records    *)
(* the exception's name in an error field and leaves the state as the      *)
(* code left it when the exception escaped.                                *)
(***************************************************************************)
EXTENDS Integers, Sequences, FiniteSets, TLC

\* ------------------------------------------------------------------ bounds
MaxRows == 5
MaxChunk == 3
MaxWrites == 3
MaxCloses == 2
MaxEnters == 1
MaxIters == 2
MaxCap == 3
MaxBufWrites == 6
MaxFlushes == 1
MaxPeeks == 2

\* ----------------------------------------------------------------- helpers
Min(a, b) == IF a <= b THEN a ELSE b

None == "None"

\* An optional value: <<>> is None, <<v>> is the value v.
Some(v) == <<v>>
Nothing == <<>>

RECURSIVE Concat(_)
\* pd.concat of a list of tables: their rows in list order, labels kept.
Concat(tables) ==
    IF tables = <<>> THEN <<>>
    ELSE Head(tables) \o Concat(Tail(tables))

VARIABLES
    \* DataframeReader (from_dataframe) and one generator of its __iter__
    df,          \* the table handed to from_dataframe
    chunksize,   \* DataframeReader.chunksize
    total_rows,  \* DataframeReader.total_rows
    gen_i,       \* slice_generator's loop variable i (next start)
    gen_done,    \* the generator is exhausted
    slices,      \* the slices yielded so far, in order
    chunks,      \* the chunks __iter__ yielded so far, in order
    peeks        \* what the peek() calls made so far returned, in order: an
                 \* optional chunk, None where peek() raised StopIteration

srcVars == <<df, chunksize, total_rows, gen_i, gen_done, slices, chunks, peeks>>

\* ---------------------------------------------------------- DataframeReader
Values == {0, 1}

\* The tables of R rows with the default RangeIndex 0..R-1.
Tables(R) ==
    { [k \in 1..R |-> [idx |-> k - 1, val |-> v[k]]] : v \in [1..R -> Values] }

\* A faulty variant of SliceStop: the stop is not clipped to length.
SliceStopNoMin(i, n, length) == i + n

\* slice(i, min(i + n, length)): the stop of the slice that starts at i.
SliceStop(i, n, length) == Min(i + n, length)

\* A faulty variant of DfSlice: the stop row is included.
DfSliceInclusive(t, s) == SubSeq(t, s.start + 1, Min(s.stop + 1, Len(t)))

\* df[slice_]: positional row slicing, half-open, the stop clipped to the
\* table's length as Python's slices are.
DfSlice(t, s) == SubSeq(t, s.start + 1, Min(s.stop, Len(t)))

\* DataframeReader.pipe: a copy of the chunk.
ReaderPipe(chunk) == chunk

\* from_dataframe(df) on a DataframeReader(chunksize), then iter() of it:
\* nothing is computed until the first next().
InitSource ==
    /\ chunksize \in 1..MaxChunk
    /\ \E R \in 0..MaxRows : df \in Tables(R)
    /\ total_rows = Len(df)
    /\ gen_i = 0
    /\ gen_done = FALSE
    /\ slices = <<>>
    /\ chunks = <<>>
    /\ peeks = <<>>

\* One next() that yields: range(0, length, n) still has an element.
SourceYield ==
    /\ ~gen_done
    /\ gen_i < Len(df)
    /\ LET s == [start |-> gen_i, stop |-> SliceStop(gen_i, chunksize, Len(df))]
       IN  /\ slices' = Append(slices, s)
           /\ chunks' = Append(chunks, ReaderPipe(DfSlice(df, s)))
    /\ gen_i' = gen_i + chunksize
    /\ UNCHANGED <<df, chunksize, total_rows, gen_done, peeks>>

\* The next() that ends the iteration (StopIteration).
SourceStop ==
    /\ ~gen_done
    /\ gen_i >= Len(df)
    /\ gen_done' = TRUE
    /\ UNCHANGED <<df, chunksize, total_rows, gen_i, slices, chunks, peeks>>

\* A generator of __iter__: id tells the generator objects apart (0 is the
\* one of the iteration under way), i is slice_generator's next start.
Gen(id, i, done) == [id |-> id, i |-> i, done |-> done]

\* next(g) on a generator of __iter__ over table t with chunksize n: the
\* generator afterwards and what it yielded (None: StopIteration).
GenNext(g, t, n) ==
    IF g.done \/ g.i >= Len(t)
    THEN [g |-> [g EXCEPT !.done = TRUE], out |-> Nothing]
    ELSE LET s == [start |-> g.i, stop |-> SliceStop(g.i, n, Len(t))]
         IN  [g |-> [g EXCEPT !.i = @ + n],
              out |-> Some(ReaderPipe(DfSlice(t, s)))]

\* A faulty variant of PeekIter: peek() advances the generator of the
\* iteration under way.
PeekIterShared(cur, k) == cur

\* iter(self) in peek(): __iter__ is a generator function, so the k-th peek()
\* gets a generator of its own that starts _generate_iter() anew; cur, the
\* generator of the iteration under way, is another object.
PeekIter(cur, k) == Gen(k, 0, FALSE)

\* peek(): next(iter(self)).  columns is peek().columns, the schema of the
\* same chunk.
Peek ==
    /\ Len(peeks) < MaxPeeks
    /\ LET cur == Gen(0, gen_i, gen_done)
           g == PeekIter(cur, Len(peeks) + 1)
           r == GenNext(g, df, chunksize)
       IN  /\ peeks' = Append(peeks, r.out)
           /\ gen_i' = IF g.id = cur.id THEN r.g.i ELSE gen_i
           /\ gen_done' = IF g.id = cur.id THEN r.g.done ELSE gen_done
    /\ UNCHANGED <<df, chunksize, total_rows, slices, chunks>>

RECURSIVE ChunksFrom(_, _, _)
\* list(reader) from start i on: the chunks one uninterrupted iteration of
\* table t with chunksize n yields.
ChunksFrom(t, n, i) ==
    IF i >= Len(t) THEN <<>>
    ELSE <<ReaderPipe(DfSlice(t, [start |-> i, stop |-> SliceStop(i, n, Len(t))]))>>
         \o ChunksFrom(t, n, i + n)


\* ----------------------------------------------------------- DataframeWriter
VARIABLES
    sink,        \* the DataframeWriter object (see SinkNew)
    ret,         \* what the last close() returned (an optional table)
    n_writes,    \* write() calls made so far
    n_enters,    \* explicit __enter__() calls made so far
    n_closes,    \* close() calls made so far
    last,        \* the last call made: "new", "configure", "write", "enter", "close"
    closed,      \* a close() call has returned normally
    fed          \* the chunks of the write() calls that returned normally,
                 \* each with whether a close() had returned before it (late)
                 \* and the number of close() calls made before it (after)

sinkVars == <<sink, ret, n_writes, n_enters, n_closes, last, closed, fed>>

Kinds == {"csv", "dataframe", "parquet"}

\* DataframeWriter.__init__.  Beside the object's attributes the record holds
\* what they refer to:
\*   kind      which to_* method set writer and _ctm ("none": neither is set)
\*   ctm       the state of the context manager _ctm: "None"; of the file
\*             object "open" | "closed"; of a @contextmanager generator
\*             "fresh" (not started) | "started" (run to its yield by __exit__,
\*             its value not kept) | "entered" | "finished"
\*   sinkv     _sink: "None" | "list" | "file"
\*   items     the contents of the list ctm() yielded
\*   header    the header entry of to_csv's kwargs: "absent" | "None"
\*   lines     the lines written to the file of to_csv
\*   persisted the tables pq.write_table wrote to the path of to_parquet
\*   err       the exception the last call raised ("" when it returned)
\* The generator context managers behave as contextlib's of Python 3.11 do:
\* __exit__ on one never entered runs it to its yield and raises RuntimeError;
\* __enter__ on one already entered raises AttributeError.
SinkNew ==
    [kind |-> "none", ctm |-> None, sinkv |-> None, items |-> <<>>,
     to_return |-> Nothing, block_written |-> 0, header |-> "absent",
     lines |-> <<>>, persisted |-> <<>>, err |-> ""]

Raise(s, e) == [s EXCEPT !.err = e]

\* to_dataframe: the generator context manager is created, not started.
ToDataframeOp(s) == [s EXCEPT !.kind = "dataframe", !.ctm = "fresh", !.err = ""]

\* to_csv: _ctm = open(path, "w") opens (and truncates) the file at once.
ToCsvOp(s) == [s EXCEPT !.kind = "csv", !.ctm = "open", !.err = ""]

\* to_parquet: to_dataframe(), then its ctm wrapped in a second generator.
ToParquetOp(s) == [ToDataframeOp(s) EXCEPT !.kind = "parquet"]

\* DataframeWriter.pipe
SinkPipe(chunk) == chunk

\* _ctm.__enter__() for the three context managers.
CtmEnter(s) ==
    CASE s.kind = "csv" ->
            IF s.ctm = "open" THEN [s EXCEPT !.sinkv = "file", !.err = ""]
            ELSE Raise(s, "ValueError")           \* I/O operation on closed file
      [] s.kind \in {"dataframe", "parquet"} ->
            CASE s.ctm = "fresh" ->
                    [s EXCEPT !.ctm = "entered", !.sinkv = "list",
                              !.items = <<>>, !.err = ""]
              [] s.ctm = "started" ->
                    \* the generator resumes after its yield: pd.concat(None)
                    Raise([s EXCEPT !.ctm = "finished"], "TypeError")
              [] OTHER ->
                    \* __enter__ deleted self.args on its first call
                    Raise(s, "AttributeError")
      [] OTHER -> s

\* DataframeWriter.__enter__
SinkEnter(s) ==
    IF s.ctm # None THEN CtmEnter(s) ELSE [s EXCEPT !.err = ""]

\* The module attribute pd.to_csv: pandas has no such function, so the
\* attribute lookup raises before anything is written.
PdToCsv(s, chunk) == Raise(s, "AttributeError")

\* A faulty variant of WriterCall: to_dataframe's writer inserts the chunk at
\* the front of the list.
WriterCallPrepend(s, chunk) ==
    CASE s.kind = "csv" ->
            PdToCsv(IF s.block_written > 0 THEN [s EXCEPT !.header = None]
                    ELSE s, chunk)
      [] s.kind \in {"dataframe", "parquet"} ->
            [s EXCEPT !.items = <<chunk>> \o @, !.err = ""]
      [] OTHER -> Raise(s, "TypeError")

\* The format-specific writer closures of to_csv and to_dataframe.
WriterCall(s, chunk) ==
    CASE s.kind = "csv" ->
            PdToCsv(IF s.block_written > 0 THEN [s EXCEPT !.header = None]
                    ELSE s, chunk)
      [] s.kind \in {"dataframe", "parquet"} ->
            [s EXCEPT !.items = Append(@, chunk), !.err = ""]
      [] OTHER -> Raise(s, "TypeError")          \* self.writer is None

\* DataframeWriter.write
SinkWrite(s, chunk) ==
    LET e == IF s.ctm # None /\ s.sinkv = None THEN SinkEnter(s)
             ELSE [s EXCEPT !.err = ""]
    IN  IF e.err # "" THEN e
        ELSE LET w == WriterCall(e, SinkPipe(chunk))
             IN  IF w.err # "" THEN w
                 ELSE [w EXCEPT !.block_written = @ + 1]

\* DataframeWriter.write on an object of a subclass whose pipe hook raises
\* for the chunk: the sink is entered if need be, then the hook's exception
\* escapes before the writer is called.
SinkWritePipeRaises(s) ==
    LET e == IF s.ctm # None /\ s.sinkv = None THEN SinkEnter(s)
             ELSE [s EXCEPT !.err = ""]
    IN  IF e.err # "" THEN e ELSE Raise(e, "PipeError")

\* pd.concat(self._sink) in to_dataframe's ctm, after its yield.
CtmConcat(s) ==
    IF s.sinkv = None THEN Raise(s, "TypeError")
    ELSE IF s.items = <<>> THEN Raise(s, "ValueError")  \* No objects to concatenate
    ELSE [s EXCEPT !.to_return = Some(Concat(s.items)), !.err = ""]

\* A faulty variant of ParquetPersist: the first chunk received is persisted
\* instead of the concatenated table.
ParquetPersistFirst(s) ==
    IF s.err # "" THEN s
    ELSE [s EXCEPT !.persisted = Append(@, s.items[1])]

\* to_parquet's ctm after the inner with block: the table is persisted.
ParquetPersist(s) ==
    IF s.err # "" THEN s
    ELSE [s EXCEPT !.persisted = Append(@, s.to_return[1])]

\* _ctm.__exit__(None, None, None) for the three context managers.
CtmExit(s) ==
    CASE s.kind = "csv" -> [s EXCEPT !.ctm = "closed", !.err = ""]
      [] s.kind \in {"dataframe", "parquet"} ->
            CASE s.ctm = "fresh" ->
                    \* next(gen) runs the generator to its yield
                    Raise([s EXCEPT !.ctm = "started"], "RuntimeError")
              [] s.ctm \in {"started", "entered"} ->
                    LET c == CtmConcat([s EXCEPT !.ctm = "finished"])
                    IN  IF s.kind = "parquet" THEN ParquetPersist(c) ELSE c
              [] OTHER -> [s EXCEPT !.err = ""]   \* StopIteration: returns False
      [] OTHER -> s

\* DataframeWriter.__exit__
SinkExit(s) ==
    IF s.ctm # None THEN CtmExit(s) ELSE [s EXCEPT !.err = ""]

\* DataframeWriter.close: the state after it; it returns to_return unless
\* __exit__ raised.
SinkClose(s) == SinkExit(s)

\* The chunk of a write() call: sz rows with content v, labelled on from the
\* rows fed so far.
FedChunks == [k \in 1..Len(fed) |-> fed[k].chunk]

RowsFed == Len(Concat(FedChunks))

\* The sink holds an underlying resource: the file of to_csv is open, or the
\* accumulator list of to_dataframe's ctm is bound to _sink.
ResourceHeld(s) == s.ctm = "open" \/ s.sinkv = "list"

MkChunk(sz, v) == [k \in 1..sz |-> [idx |-> RowsFed + k - 1, val |-> v]]

InitSink ==
    /\ sink = SinkNew
    /\ ret = Nothing
    /\ n_writes = 0
    /\ n_enters = 0
    /\ n_closes = 0
    /\ last = "new"
    /\ closed = FALSE
    /\ fed = <<>>

\* One of to_csv, to_dataframe, to_parquet, called once on a new object.
Configure ==
    /\ sink.kind = "none"
    /\ n_writes = 0 /\ n_enters = 0 /\ n_closes = 0
    /\ \E k \in Kinds :
         sink' = CASE k = "csv" -> ToCsvOp(sink)
                   [] k = "dataframe" -> ToDataframeOp(sink)
                   [] OTHER -> ToParquetOp(sink)
    /\ last' = "configure"
    /\ UNCHANGED <<ret, n_writes, n_enters, n_closes, closed, fed>>

Write ==
    /\ n_writes < MaxWrites
    /\ \E sz \in 1..2, v \in Values :
         /\ sink' = SinkWrite(sink, MkChunk(sz, v))
         /\ fed' = IF sink'.err = ""
                    THEN Append(fed, [chunk |-> MkChunk(sz, v), late |-> closed,
                                      after |-> n_closes])
                    ELSE fed
    /\ n_writes' = n_writes + 1
    /\ last' = "write"
    /\ UNCHANGED <<ret, n_enters, n_closes, closed>>

\* A write() whose pipe hook raises.
WriteRaising ==
    /\ n_writes < MaxWrites
    /\ sink' = SinkWritePipeRaises(sink)
    /\ n_writes' = n_writes + 1
    /\ last' = "write"
    /\ UNCHANGED <<ret, n_enters, n_closes, closed, fed>>

Enter ==
    /\ n_enters < MaxEnters
    /\ sink' = SinkEnter(sink)
    /\ n_enters' = n_enters + 1
    /\ last' = "enter"
    /\ UNCHANGED <<ret, n_writes, n_closes, closed, fed>>

Close ==
    /\ n_closes < MaxCloses
    /\ sink' = SinkClose(sink)
    /\ ret' = IF sink'.err = "" THEN sink'.to_return ELSE Nothing
    /\ n_closes' = n_closes + 1
    /\ last' = "close"
    /\ closed' = (closed \/ sink'.err = "")
    /\ UNCHANGED <<n_writes, n_enters, fed>>


\* ---------------------------------------------------------------- LineReader
VARIABLES
    lr_header0,  \* the header entry of the kwargs LineReader was built with
    lr_header,   \* the header entry of self.kwargs: "absent", "True", "False", "None"
    lr_pc,       \* "idle": no iteration under way; "running": inside __iter__
    lr_ind,      \* enumerate's index of the next chunk
    lr_lines,    \* the lines the iteration under way has yielded
    lr_outs      \* the line sequences of the finished iterations, in order

lineVars == <<lr_header0, lr_header, lr_pc, lr_ind, lr_lines, lr_outs>>

\* A line of delimited text: the header line, or the line of one row.
HeaderLine == [hdr |-> TRUE, idx |-> -1, val |-> -1]

DataLine(row) == [hdr |-> FALSE, idx |-> row.idx, val |-> row.val]

\* to_csv's header argument: a header line is written when it is truthy.
HeaderOn(h) == h = "True"

\* df.to_csv(f, **kwargs) read back line by line.
ToCsvLines(chunk, h) ==
    (IF HeaderOn(h) THEN <<HeaderLine>> ELSE <<>>)
    \o [k \in 1..Len(chunk) |-> DataLine(chunk[k])]

\* LineReader.pipe
LinePipe(line) == line

\* kwargs.get("header", True)
GetHeader(h) == IF h = "absent" THEN "True" ELSE h

\* The header entry for chunk number ind: None from the second chunk on.
HeaderFor(ind, h) == IF ind = 1 THEN None ELSE h

\* LineReader(reader, **kwargs) over a reader built with from_dataframe.
InitLine ==
    /\ lr_header0 \in {"absent", "True", "False"}
    /\ lr_header = lr_header0
    /\ lr_pc = "idle"
    /\ lr_ind = 0
    /\ lr_lines = <<>>
    /\ lr_outs = <<>>

\* iter(line_reader) and its first next(): __iter__ starts, sets the header
\* entry and iterates self.reader from its start.
LineIterStart ==
    /\ lr_pc = "idle"
    /\ Len(lr_outs) < MaxIters
    /\ lr_header' = GetHeader(lr_header)
    /\ lr_pc' = "running"
    /\ lr_ind' = 0
    /\ lr_lines' = <<>>
    /\ gen_i' = 0
    /\ gen_done' = FALSE
    /\ slices' = <<>>
    /\ chunks' = <<>>
    /\ UNCHANGED <<df, chunksize, total_rows, peeks, lr_header0, lr_outs>>

\* One pass of the loop body: the reader yields its next chunk, whose lines
\* are yielded one by one.
LineIterChunk ==
    /\ lr_pc = "running"
    /\ SourceYield
    /\ lr_header' = HeaderFor(lr_ind, lr_header)
    /\ LET chunk == chunks'[Len(chunks')]
           text == ToCsvLines(chunk, lr_header')
       IN  lr_lines' = lr_lines \o [k \in 1..Len(text) |-> LinePipe(text[k])]
    /\ lr_ind' = lr_ind + 1
    /\ UNCHANGED <<lr_header0, lr_pc, lr_outs>>

\* The reader is exhausted: the iteration ends.
LineIterStop ==
    /\ lr_pc = "running"
    /\ SourceStop
    /\ lr_pc' = "idle"
    /\ lr_outs' = Append(lr_outs, lr_lines)
    /\ UNCHANGED <<lr_header0, lr_header, lr_ind, lr_lines>>

\* ------------------------------------------- BufferedObjectWriter, LineWriter
VARIABLES
    buf,         \* the buffer object (see BufNew)
    b_calls,     \* write() calls made on the buffer so far
    b_flushes,   \* explicit flush() calls made on the buffer so far
    b_closes,    \* close() calls made on the buffer so far
    b_last,      \* the last call made on the buffer: "new", "write", "flush", "close"
    wlog,        \* the items of the write() calls that returned normally
    delivered    \* the batches handed to the downstream writer.write, in order

bufVars == <<buf, b_calls, b_flushes, b_closes, b_last, wlog, delivered>>

Classes == {"BufferedObjectWriter", "LineWriter"}

\* BufferedObjectWriter.__init__ and LineWriter.__init__.  Beside the
\* object's attributes the record holds:
\*   cls        the class of the object
\*   is_df      self.buffer is a DataFrame (LineWriter.flush assigned it), not
\*              a list; buffer then holds its rows
\*   kw_index   kwargs has an index entry that is not None
\*   kw_header  the header entry of kwargs: "absent" | "None"
\*   kw_names   kwargs has a names entry (the columns of the first decoded block)
\*   names      the names entry: the content of the line that gave the column
\*              names (an optional value)
\*   err        the exception the last call raised ("" when it returned)
BufNew(cls, c, index) ==
    [cls |-> cls, chunksize |-> c, buffer |-> <<>>, is_df |-> FALSE,
     n_in_buffer |-> 0, n_written |-> 0, chunk_written |-> 0,
     header_lines |-> 0, kw_index |-> index, kw_header |-> "absent",
     kw_names |-> FALSE, names |-> Nothing, err |-> ""]

\* The state of a buffer and of its downstream writer, and the batches an
\* operation handed downstream.
After(b, w, out) == [b |-> b, w |-> w, out |-> out]

\* pd.read_csv(BytesIO(b''.join(buffer)), **kwargs): with no header and names
\* entries the first line gives the column names and the others the rows;
\* with names and header=None every line is a row.  Rows are labelled 0, 1, ...
ReadCsv(lines, kw_header, kw_names) ==
    LET body == IF kw_header = "absent" /\ ~kw_names THEN Tail(lines) ELSE lines
    IN  [k \in 1..Len(body) |-> [idx |-> k - 1, val |-> body[k].val]]

\* df.index = range(idx_start, idx_start + len(df))
SetIndex(rows, idx_start) ==
    [k \in 1..Len(rows) |-> [rows[k] EXCEPT !.idx = idx_start + k - 1]]

\* LineWriter.pipe
WriterPipe(rows) == rows

\* self.writer: a LineWriter's is a DataframeWriter; a BufferedObjectWriter's
\* is any object with write(batch) and close(), here either a DataframeWriter
\* or a "recorder" that keeps the batches it is handed and returns all their
\* items from close().
DownWrite(w, batch) ==
    IF w.kind = "recorder"
    THEN [w EXCEPT !.items = Append(@, batch), !.err = ""]
    ELSE SinkWrite(w, batch)

DownClose(w) ==
    IF w.kind = "recorder"
    THEN [w EXCEPT !.ctm = "closed", !.to_return = Some(Concat(w.items)),
                   !.err = ""]
    ELSE SinkClose(w)

\* A faulty variant of BaseFlush: the total-written counter is set to the
\* batch's size instead of increased by it.
BaseFlushResetsTotal(b, w) ==
    IF Len(b.buffer) = 0 THEN After([b EXCEPT !.err = ""], w, <<>>)
    ELSE LET w2 == DownWrite(w, b.buffer)
         IN  IF w2.err # "" THEN After(Raise(b, w2.err), w2, <<b.buffer>>)
             ELSE After([b EXCEPT !.n_written = b.n_in_buffer,
                                  !.n_in_buffer = 0,
                                  !.chunk_written = @ + 1,
                                  !.buffer = <<>>,
                                  !.is_df = FALSE,
                                  !.err = ""],
                        w2, <<b.buffer>>)

\* BufferedObjectWriter.flush
BaseFlush(b, w) ==
    IF Len(b.buffer) = 0 THEN After([b EXCEPT !.err = ""], w, <<>>)
    ELSE LET w2 == DownWrite(w, b.buffer)
         IN  IF w2.err # "" THEN After(Raise(b, w2.err), w2, <<b.buffer>>)
             ELSE After([b EXCEPT !.n_written = @ + b.n_in_buffer,
                                  !.n_in_buffer = 0,
                                  !.chunk_written = @ + 1,
                                  !.buffer = <<>>,
                                  !.is_df = FALSE,
                                  !.err = ""],
                        w2, <<b.buffer>>)

\* A faulty variant of IdxStart: the header lines are not subtracted.
IdxStartNoHeader(b) == b.n_written

\* idx_start = self.n_written - self.header_lines
IdxStart(b) == b.n_written - b.header_lines

\* df.columns of the block read_csv decoded: the first line's names when the
\* header is inferred, the names entry otherwise.
DfColumns(lines, kw_header, kw_names, names) ==
    IF kw_header = "absent" /\ ~kw_names THEN Some(Head(lines).val) ELSE names

\* A faulty variant of FirstFlush: every flush takes itself for the first.
FirstFlushAlways(b) == TRUE

\* if self.chunk_written == 0
FirstFlush(b) == b.chunk_written = 0

\* LineWriter.flush
LineFlush(b, w) ==
    IF Len(b.buffer) = 0 THEN After([b EXCEPT !.err = ""], w, <<>>)
    ELSE IF b.is_df THEN After(Raise(b, "TypeError"), w, <<>>)  \* b''.join(DataFrame)
    ELSE IF b.kw_index THEN After(Raise(b, "TypeError"), w, <<>>)  \* read_csv(index=...)
    ELSE LET decoded == ReadCsv(b.buffer, b.kw_header, b.kw_names)
             rows == SetIndex(decoded, IdxStart(b))
             b1 == IF FirstFlush(b)
                   THEN [b EXCEPT !.kw_names = TRUE, !.kw_header = None,
                                  !.names = DfColumns(b.buffer, b.kw_header,
                                                      b.kw_names, b.names),
                                  !.header_lines = b.n_in_buffer - Len(rows)]
                   ELSE b
             b2 == [b1 EXCEPT !.buffer = WriterPipe(rows), !.is_df = TRUE]
         IN  BaseFlush(b2, w)

\* self.flush(), dispatched on the object's class.
Flush(b, w) ==
    IF b.cls = "LineWriter" THEN LineFlush(b, w) ELSE BaseFlush(b, w)

\* self.buffer.append(obj) and the count: a DataFrame cannot append a line.
BufAppend(b, obj) ==
    IF b.is_df THEN Raise(b, "TypeError")
    ELSE [b EXCEPT !.buffer = Append(@, obj), !.n_in_buffer = @ + 1, !.err = ""]

\* A faulty variant of BufWrite: the flush comes one write too late.
BufWriteLate(b, w, obj) ==
    LET f == IF b.n_in_buffer > b.chunksize THEN Flush(b, w)
             ELSE After([b EXCEPT !.err = ""], w, <<>>)
    IN  IF f.b.err # "" THEN f
        ELSE After(BufAppend(f.b, obj), f.w, f.out)

\* BufferedObjectWriter.write
BufWrite(b, w, obj) ==
    LET f == IF b.n_in_buffer >= b.chunksize THEN Flush(b, w)
             ELSE After([b EXCEPT !.err = ""], w, <<>>)
    IN  IF f.b.err # "" THEN f
        ELSE After(BufAppend(f.b, obj), f.w, f.out)

\* A faulty variant of BufClose: the downstream writer is closed without the
\* flush of what is still held.
BufCloseNoFlush(b, w) ==
    LET w2 == DownClose(w)
    IN  After(Raise(b, w2.err), w2, <<>>)

\* BufferedObjectWriter.close: flush, then the downstream close.
BufClose(b, w) ==
    LET f == Flush(b, w)
    IN  IF f.b.err # "" THEN f
        ELSE LET w2 == DownClose(f.w)
             IN  After(Raise(f.b, w2.err), w2, f.out)

\* A buffer of either class with capacity c over a configured downstream sink.
InitBuf ==
    /\ \E cls \in Classes, c \in 1..MaxCap, index \in BOOLEAN :
         /\ index => cls = "LineWriter"
         /\ buf = BufNew(cls, c, index)
    /\ \E k \in Kinds \cup {"recorder"} :
         /\ k = "recorder" => buf.cls = "BufferedObjectWriter"
         /\ k \in {"dataframe", "parquet"} => buf.cls = "LineWriter"
         /\ sink = CASE k = "csv" -> ToCsvOp(SinkNew)
                    [] k = "dataframe" -> ToDataframeOp(SinkNew)
                    [] k = "parquet" -> ToParquetOp(SinkNew)
                    [] OTHER -> [SinkNew EXCEPT !.kind = "recorder"]
    /\ ret = Nothing
    /\ n_writes = 0 /\ n_enters = 0 /\ n_closes = 0
    /\ last = "configure" /\ closed = FALSE /\ fed = <<>>
    /\ b_calls = 0 /\ b_flushes = 0 /\ b_closes = 0
    /\ b_last = "new"
    /\ wlog = <<>>
    /\ delivered = <<>>

\* The item of the next write() call: a line carrying the call's number, a
\* header line or a data line for a LineWriter.
Item(h) == [hdr |-> h, val |-> b_calls + 1]

BufDoWrite ==
    /\ b_calls < MaxBufWrites
    /\ \E h \in BOOLEAN :
         /\ h => buf.cls = "LineWriter"
         /\ LET r == BufWrite(buf, sink, Item(h))
            IN  /\ buf' = r.b
                /\ sink' = r.w
                /\ delivered' = delivered \o r.out
                /\ wlog' = IF r.b.err = "" THEN Append(wlog, Item(h)) ELSE wlog
    /\ b_calls' = b_calls + 1
    /\ b_last' = "write"
    /\ UNCHANGED <<b_flushes, b_closes>>

BufDoFlush ==
    /\ b_flushes < MaxFlushes
    /\ LET r == Flush(buf, sink)
       IN  /\ buf' = r.b
           /\ sink' = r.w
           /\ delivered' = delivered \o r.out
    /\ b_flushes' = b_flushes + 1
    /\ b_last' = "flush"
    /\ UNCHANGED <<b_calls, b_closes, wlog>>

BufDoClose ==
    /\ b_closes < MaxCloses
    /\ LET r == BufClose(buf, sink)
       IN  /\ buf' = r.b
           /\ sink' = r.w
           /\ delivered' = delivered \o r.out
           /\ ret' = IF r.b.err = "" THEN r.w.to_return ELSE Nothing
    /\ b_closes' = b_closes + 1
    /\ b_last' = "close"
    /\ UNCHANGED <<b_calls, b_flushes, wlog>>

\* ------------------------------------------------------------ specifications
vars == <<srcVars, sinkVars, lineVars, bufVars>>

\* The buffer's variables when no buffer takes part.
NoBuf ==
    /\ buf = BufNew("BufferedObjectWriter", 1, FALSE)
    /\ b_calls = 0 /\ b_flushes = 0 /\ b_closes = 0 /\ b_last = "new"
    /\ wlog = <<>> /\ delivered = <<>>

\* The line projector's variables when none takes part.
NoLine ==
    /\ lr_header0 = "absent" /\ lr_header = "absent" /\ lr_pc = "idle"
    /\ lr_ind = 0 /\ lr_lines = <<>> /\ lr_outs = <<>>

\* The reader's variables when no reader takes part.
NoSource ==
    /\ df = <<>> /\ chunksize = 1 /\ total_rows = None /\ gen_i = 0
    /\ gen_done = TRUE /\ slices = <<>> /\ chunks = <<>> /\ peeks = <<>>

\* A DataframeReader over a table, iterated once.
InitSrc == InitSource /\ InitSink /\ NoLine /\ NoBuf

IterYield == SourceYield /\ UNCHANGED <<sinkVars, lineVars, bufVars>>

IterStop == SourceStop /\ UNCHANGED <<sinkVars, lineVars, bufVars>>

IterPeek == Peek /\ UNCHANGED <<sinkVars, lineVars, bufVars>>

NextSrc == IterYield \/ IterStop \/ IterPeek

SpecSource == InitSrc /\ [][NextSrc]_vars

\* A DataframeWriter driven by its caller.
InitSnk == NoSource /\ InitSink /\ NoLine /\ NoBuf

SinkConfigure == Configure /\ UNCHANGED <<srcVars, lineVars, bufVars>>

SinkDoWrite == Write /\ UNCHANGED <<srcVars, lineVars, bufVars>>

SinkDoEnter == Enter /\ UNCHANGED <<srcVars, lineVars, bufVars>>

SinkDoClose == Close /\ UNCHANGED <<srcVars, lineVars, bufVars>>

SinkDoWriteRaising == WriteRaising /\ UNCHANGED <<srcVars, lineVars, bufVars>>

NextSnk ==
    SinkConfigure \/ SinkDoWrite \/ SinkDoWriteRaising \/ SinkDoEnter
        \/ SinkDoClose

SpecSink == InitSnk /\ [][NextSnk]_vars

\* A LineReader over a DataframeReader, iterated repeatedly, one iteration
\* after the other.
InitLines ==
    /\ InitSource
    /\ InitSink
    /\ InitLine
    /\ NoBuf

ProjStart == LineIterStart /\ UNCHANGED <<sinkVars, bufVars>>

ProjChunk == LineIterChunk /\ UNCHANGED <<sinkVars, bufVars>>

ProjStop == LineIterStop /\ UNCHANGED <<sinkVars, bufVars>>

NextLines == ProjStart \/ ProjChunk \/ ProjStop

SpecLines == InitLines /\ [][NextLines]_vars

\* A BufferedObjectWriter or LineWriter over a DataframeWriter, driven by its
\* caller; the downstream sink is reached through the buffer only.
InitBuffer == NoSource /\ NoLine /\ InitBuf

BufferWrite ==
    /\ BufDoWrite
    /\ UNCHANGED <<srcVars, lineVars, ret, n_writes, n_enters, n_closes, last,
                   closed, fed>>

BufferFlush ==
    /\ BufDoFlush
    /\ UNCHANGED <<srcVars, lineVars, ret, n_writes, n_enters, n_closes, last,
                   closed, fed>>

BufferClose ==
    /\ BufDoClose
    /\ UNCHANGED <<srcVars, lineVars, n_writes, n_enters, n_closes, last,
                   closed, fed>>

NextBuffer == BufferWrite \/ BufferFlush \/ BufferClose

SpecBuffer == InitBuffer /\ [][NextBuffer]_vars

\* ------------------------------------------------------------------- claims

\* C1: slice_generator(length, n), length >= 0 and n >= 1, yields half-open
\* ranges that are consecutive from 0 (hence disjoint), non-empty, of exactly n
\* elements except possibly the last (1..n), and that cover [0, length) once
\* the generator is exhausted; length = 0 yields no range and n >= length > 0
\* yields a single range.
C1_SlicesPartition ==
    /\ \A k \in 1..Len(slices) :
         /\ slices[k].start = (IF k = 1 THEN 0 ELSE slices[k - 1].stop)
         /\ slices[k].start < slices[k].stop
         /\ slices[k].stop <= Len(df)
         /\ slices[k].stop - slices[k].start <= chunksize
         /\ k < Len(slices) => slices[k].stop - slices[k].start = chunksize
    /\ gen_done =>
         /\ (Len(df) = 0 <=> slices = <<>>)
         /\ slices # <<>> => slices[Len(slices)].stop = Len(df)
         /\ (chunksize >= Len(df) /\ Len(df) > 0) => Len(slices) = 1

\* C1's case: an exhausted generator that yielded several ranges, the last
\* one shorter than n.
C1_Witness ==
    /\ gen_done
    /\ Len(slices) >= 2
    /\ slices[Len(slices)].stop - slices[Len(slices)].start < chunksize

\* C2: iterating a reader built with from_dataframe yields chunks of at most
\* chunksize rows whose concatenation in yield order is the rows yielded so
\* far in original order, and the whole table once the iteration has ended.
C2_ChunksRoundTrip ==
    /\ \A k \in 1..Len(chunks) : Len(chunks[k]) \in 1..chunksize
    /\ Concat(chunks) = SubSeq(df, 1, Min(gen_i, Len(df)))
    /\ gen_done => Concat(chunks) = df

\* C2's case: 5 rows in chunks of 2 give chunks of 2, 2 and 1 rows.
C2_Witness ==
    /\ gen_done
    /\ Len(df) = 5
    /\ chunksize = 2
    /\ [k \in 1..Len(chunks) |-> Len(chunks[k])] = <<2, 2, 1>>

\* C3: when close() of an in-memory sink returns after k >= 1 chunks were
\* written to it (all of them before any close() call), it returns one table: the
\* rows of chunk 1, then chunk 2, ..., then chunk k, each exactly once.
C3_CloseConcatsInOrder ==
    (/\ sink.kind = "dataframe"
     /\ last = "close"
     /\ fed # <<>>
     /\ \A k \in 1..Len(fed) : fed[k].after = 0)
    => /\ sink.err = ""
       /\ ret = Some(Concat(FedChunks))
       /\ [k \in 1..Len(ret[1]) |-> ret[1][k].idx] = [k \in 1..RowsFed |-> k - 1]

\* C3's case: chunks of 2, 2 and 1 rows (5 rows by 2) written, then close().
C3_Witness ==
    /\ sink.kind = "dataframe"
    /\ last = "close"
    /\ [k \in 1..Len(fed) |-> Len(fed[k].chunk)] = <<2, 2, 1>>
    /\ \A k \in 1..Len(fed) : fed[k].after = 0
    /\ ret # Nothing
    /\ Len(ret[1]) = 5

\* The header lines among the lines of the file of to_csv.
HeaderCount(lines) == Cardinality({k \in 1..Len(lines) : lines[k].hdr})

\* C4: a delimited-text sink that received k >= 1 chunks through write has
\* emitted exactly one header line, before every data line, and has counted
\* every chunk in block_written.
C4_OneHeaderFirst ==
    (sink.kind = "csv" /\ last = "write" /\ ~closed)
    => /\ sink.err = ""
       /\ HeaderCount(sink.lines) = 1
       /\ sink.lines[1].hdr
       /\ sink.block_written = n_writes

\* C8: a write(chunk) made after close() has completed fails with an error:
\* no chunk is accepted after a close.
C8_WriteAfterCloseFails ==
    /\ (last = "write" /\ closed) => sink.err # ""
    /\ \A k \in 1..Len(fed) : ~fed[k].late

\* C9: close() on a sink that was configured but never entered and never
\* written to raises no error and returns nothing.
C9_CloseUnopenedIsNoOp ==
    (/\ sink.kind \in Kinds
     /\ last = "close"
     /\ n_writes = 0 /\ n_enters = 0)
    => (sink.err = "" /\ ret = Nothing)

\* C10: a sink that was configured but neither written to nor entered holds
\* no underlying resource.
C10_ConfigureAcquiresNothing ==
    (sink.kind \in Kinds /\ n_writes = 0 /\ n_enters = 0)
    => ~ResourceHeld(sink)

\* The data lines of a table, in row order.
DataLines(t) == [k \in 1..Len(t) |-> DataLine(t[k])]

\* C5: every finished iteration of a LineReader built with the header
\* enabled, over a source of k >= 1 chunks, yielded the header line once, as
\* its first line, and then the data lines of all chunks in order.
C5_HeaderOnceFirst ==
    (lr_header0 \in {"absent", "True"} /\ Len(df) >= 1)
    => \A j \in 1..Len(lr_outs) : lr_outs[j] = <<HeaderLine>> \o DataLines(df)

\* C5 in the first iteration of a LineReader, where it holds.
C5_FirstIteration ==
    (lr_header0 \in {"absent", "True"} /\ Len(df) >= 1 /\ Len(lr_outs) >= 1)
    => lr_outs[1] = <<HeaderLine>> \o DataLines(df)

\* C6: the number of items held by a BufferedObjectWriter or LineWriter of
\* capacity c never exceeds c: not after a completed write, nor after any
\* other call, whether it returned or raised.
C6_HeldAtMostCapacity == buf.n_in_buffer <= buf.chunksize

\* C6's case: a write that found the buffer at capacity flushed it and
\* completed, and later writes filled the buffer to capacity again.
C6_Witness ==
    /\ buf.cls = "LineWriter"
    /\ b_last = "write"
    /\ buf.err = ""
    /\ buf.chunk_written >= 2
    /\ buf.n_in_buffer = buf.chunksize
    /\ b_flushes = 0

\* The index labels of the rows handed downstream, in delivery order.
DeliveredIdx == [k \in 1..Len(Concat(delivered)) |-> Concat(delivered)[k].idx]

\* One header line written first, then R >= 1 data lines, every write
\* completed, no explicit flush, then one close() that returned.
FedHeaderThenData ==
    /\ buf.cls = "LineWriter"
    /\ ~buf.kw_index
    /\ buf.chunksize >= 2
    /\ Len(wlog) = b_calls
    /\ b_calls >= 2
    /\ \A k \in 1..Len(wlog) : wlog[k].hdr <=> k = 1
    /\ b_flushes = 0
    /\ b_closes = 1
    /\ b_last = "close"
    /\ buf.err = ""

\* C7: a LineWriter without index option and with capacity c >= 2, fed one
\* header line and then R >= 1 data lines and closed, has handed downstream
\* chunks whose row labels concatenate to 0, 1, ..., R-1, whose rows are the
\* data lines in order, and has counted one header line.
C7_ContiguousIndex ==
    FedHeaderThenData =>
        /\ DeliveredIdx = [k \in 1..(b_calls - 1) |-> k - 1]
        /\ [k \in 1..Len(Concat(delivered)) |-> Concat(delivered)[k].val]
             = [k \in 1..(b_calls - 1) |-> wlog[k + 1].val]
        /\ buf.header_lines = 1
        /\ buf.n_in_buffer = 0

\* C7's case: capacity 2, a header line and 5 data lines, delivered as
\* chunks of 1, 2 and 2 rows.
C7_Witness ==
    /\ FedHeaderThenData
    /\ buf.chunksize = 2
    /\ b_calls = 6
    /\ [k \in 1..Len(delivered) |-> Len(delivered[k])] = <<1, 2, 2>>
    /\ ret # Nothing

\* C11: when close() of a BufferedObjectWriter returns, after any writes and
\* flushes, every written item has been handed downstream exactly once and in
\* write order, nothing is held any more, and close() returned what the
\* downstream close() returned; the downstream close() came after the last
\* delivery: what a recording downstream writer returns from its close() is
\* every written item.
C11_CloseFlushesThenCloses ==
    (buf.cls = "BufferedObjectWriter" /\ b_last = "close" /\ buf.err = "")
        => /\ Concat(delivered) = wlog
           /\ buf.n_in_buffer = 0
           /\ buf.buffer = <<>>
           /\ ret = sink.to_return
           /\ sink.kind = "recorder" => ret = Some(wlog)

\* C11's case: capacity 2, five writes, then a close() that delivers the last
\* item before the downstream close.
C11_Witness ==
    /\ buf.cls = "BufferedObjectWriter"
    /\ sink.kind = "recorder"
    /\ buf.chunksize = 2
    /\ b_calls = 5 /\ b_flushes = 0 /\ b_closes = 1
    /\ b_last = "close" /\ buf.err = ""
    /\ [k \in 1..Len(delivered) |-> Len(delivered[k])] = <<2, 2, 1>>
    /\ ret = Some(wlog)

\* C12: every peek() on a reader of a table with at least one row returns the
\* first chunk, whenever it is called, and peeking consumes nothing: a
\* finished iteration has yielded the chunks, and the total row count, of an
\* iteration without any peek(), however many peek() calls came before or
\* between its steps.
C12_PeekDoesNotConsume ==
    /\ \A k \in 1..Len(peeks) :
         Len(df) >= 1 => peeks[k] = Some(Head(ChunksFrom(df, chunksize, 0)))
    /\ gen_done =>
         /\ chunks = ChunksFrom(df, chunksize, 0)
         /\ Len(Concat(chunks)) = total_rows

\* C12's case: 5 rows in chunks of 2, peeked twice, once before and once
\* within the iteration, which then yielded all 3 chunks.
C12_Witness ==
    /\ Len(df) = 5 /\ chunksize = 2
    /\ Len(peeks) = 2
    /\ peeks[1] = Some(SubSeq(df, 1, 2)) /\ peeks[2] = peeks[1]
    /\ gen_done
    /\ Len(chunks) = 3

\* The sink's underlying resource is released: the file is closed, the
\* generator context manager has run to its end.
Released(s) == s.ctm \in {"closed", "finished"}

\* The last call was a write() that raised in the pipe hook or in the writer
\* while the sink was open.
WriteRaisedOpen == last = "write" /\ sink.err # "" /\ sink.sinkv # None

\* C13: a close() that follows a write() that raised after the sink was
\* opened returns normally and releases the resource; it returns the table
\* accumulated so far from a to_dataframe or to_parquet sink and None from a
\* to_csv sink.
C13_CloseAfterFailedWrite ==
    [][(WriteRaisedOpen /\ last' = "close")
          => /\ sink'.err = ""
             /\ Released(sink')
             /\ ret' = IF sink.kind = "csv" THEN Nothing
                       ELSE Some(Concat(sink.items))]_vars

\* What holds of C13 in the code: the close() completes when the sink is a
\* to_csv sink or has accumulated at least one chunk, and has not been closed
\* before.
C13_WhenAccumulated ==
    [][(WriteRaisedOpen /\ last' = "close" /\ n_closes = 0
          /\ (sink.kind = "csv" \/ sink.items # <<>>))
          => /\ sink'.err = ""
             /\ Released(sink')
             /\ ret' = IF sink.kind = "csv" THEN Nothing
                       ELSE Some(Concat(sink.items))]_vars

\* C14: a to_parquet sink writes nothing to its path before close() is
\* called and writes at most once in all; the first close(), after at least
\* one chunk was received, persists the concatenation of the received chunks
\* in arrival order, which is the finalized to_return, and returns it.
C14_PersistOnceAtClose ==
    sink.kind = "parquet" =>
        /\ Len(sink.persisted) <= 1
        /\ n_closes = 0 => sink.persisted = <<>>
        /\ (last = "close" /\ n_closes = 1 /\ fed # <<>>)
              => /\ sink.err = ""
                 /\ sink.persisted = <<Concat(FedChunks)>>
                 /\ sink.to_return = Some(sink.persisted[1])
                 /\ ret = sink.to_return

\* C14's case: three chunks received by a to_parquet sink, nothing persisted
\* meanwhile, then closed.
C14_Witness ==
    /\ sink.kind = "parquet"
    /\ Len(fed) = 3
    /\ last = "close" /\ n_closes = 1
    /\ Len(sink.persisted) = 1
    /\ Len(sink.persisted[1]) = RowsFed
    /\ ret = Some(sink.persisted[1])

\* ceil(m / c) for m >= 0, c >= 1.
CeilDiv(m, c) == (m + c - 1) \div c

\* C15: a new BufferedObjectWriter of capacity c that has received m >= 1
\* write() calls, all of which returned, and no flush() or close(), has
\* flushed ceil(m/c) - 1 times; each flush handed exactly c items downstream
\* in one call, the batches are the written items in write order, and the
\* m - c * (ceil(m/c) - 1) last items are held.
C15_FlushCountAfterWrites ==
    (/\ buf.cls = "BufferedObjectWriter"
     /\ b_flushes = 0 /\ b_closes = 0
     /\ b_calls >= 1 /\ Len(wlog) = b_calls)
        => LET m == b_calls
               c == buf.chunksize
               f == CeilDiv(m, c) - 1
           IN  /\ buf.chunk_written = f
               /\ Len(delivered) = f
               /\ \A k \in 1..Len(delivered) :
                    delivered[k] = SubSeq(wlog, c * (k - 1) + 1, c * k)
               /\ buf.n_in_buffer = m - c * f
               /\ buf.buffer = SubSeq(wlog, c * f + 1, m)

\* C15's case: capacity 3 and c + 1 = 4 writes: one flush of 3 items, 1 held.
C15_Witness ==
    /\ buf.cls = "BufferedObjectWriter"
    /\ b_flushes = 0 /\ b_closes = 0
    /\ buf.chunksize = 3
    /\ b_calls = 4 /\ Len(wlog) = 4
    /\ Len(delivered) = 1 /\ Len(delivered[1]) = 3
    /\ buf.chunk_written = 1
    /\ buf.n_in_buffer = 1

\* An explicit flush() call on a BufferedObjectWriter that returns.
FlushReturns ==
    /\ buf.cls = "BufferedObjectWriter"
    /\ b_flushes' = b_flushes + 1
    /\ buf'.err = ""

\* C16: a flush() of a BufferedObjectWriter with nothing held changes
\* nothing: no downstream call, the held count, the total-written counter and
\* the flush counter stay.  With items held it makes exactly one downstream
\* write call, with the whole batch, leaves the buffer empty and the held
\* count 0, adds 1 to the flush counter and adds the number of items that were
\* held to the total-written counter.
C16_FlushEffect ==
    [][FlushReturns =>
         IF buf.buffer = <<>>
         THEN /\ delivered' = delivered
              /\ sink' = sink
              /\ buf'.buffer = <<>>
              /\ buf'.n_in_buffer = buf.n_in_buffer
              /\ buf'.n_written = buf.n_written
              /\ buf'.chunk_written = buf.chunk_written
         ELSE /\ delivered' = Append(delivered, buf.buffer)
              /\ buf'.buffer = <<>>
              /\ buf'.n_in_buffer = 0
              /\ buf'.chunk_written = buf.chunk_written + 1
              /\ buf'.n_written = buf.n_written + Len(buf.buffer)]_vars

\* C16's case: an explicit flush() of 2 held items after an earlier flush of
\* 3 items: the total-written counter goes from 3 to 5.
C16_Witness ==
    /\ buf.cls = "BufferedObjectWriter"
    /\ b_last = "flush" /\ buf.err = ""
    /\ buf.chunksize = 3
    /\ [k \in 1..Len(delivered) |-> Len(delivered[k])] = <<3, 2>>
    /\ buf.n_written = 5 /\ buf.chunk_written = 2
    /\ buf.n_in_buffer = 0 /\ buf.buffer = <<>>

\* An explicit flush() call on a LineWriter that holds at least one line,
\* decodes with the default index and writes to a to_dataframe or to_parquet
\* sink that has not been closed.
LineFlushCall ==
    /\ buf.cls = "LineWriter"
    /\ b_flushes' = b_flushes + 1
    /\ buf.buffer # <<>> /\ ~buf.is_df
    /\ ~buf.kw_index
    /\ sink.kind \in {"dataframe", "parquet"}
    /\ b_closes = 0

\* What C17 says of such a flush(): one downstream write of the decoded,
\* re-indexed, piped chunk, then an empty line list, held count 0, and the
\* counters advanced.
LineFlushDelivers ==
    /\ buf'.err = ""
    /\ Len(delivered') = Len(delivered) + 1
    /\ delivered'[Len(delivered')]
         = WriterPipe(SetIndex(ReadCsv(buf.buffer, buf.kw_header, buf.kw_names),
                               IdxStart(buf)))
    /\ buf'.buffer = <<>> /\ ~buf'.is_df
    /\ buf'.n_in_buffer = 0
    /\ buf'.n_written = buf.n_written + buf.n_in_buffer
    /\ buf'.chunk_written = buf.chunk_written + 1

\* C17: every flush() of a LineWriter that holds at least one line, however
\* many rows the lines decode to, delivers the decoded chunk downstream
\* exactly once and leaves an empty line list, held count 0, the
\* total-written counter increased by the lines held and the flush counter
\* by 1.
C17_LineFlushAlwaysDelivers ==
    [][LineFlushCall => LineFlushDelivers]_vars

\* What holds of C17 in the code: the same when the held lines decode to at
\* least one row.
C17_WhenRows ==
    [][(LineFlushCall
          /\ Len(ReadCsv(buf.buffer, buf.kw_header, buf.kw_names)) >= 1)
          => LineFlushDelivers]_vars

\* C18: a LineWriter of any capacity has header-line count 0, no column
\* names and an inferred header until its first decoding flush; that flush
\* sets the header-line count to held lines minus decoded rows, which is 1,
\* fixes the column names to those of the first written line and disables
\* header decoding; no later step changes any of the three.
C18_HeaderFixedByFirstFlush ==
    /\ [](buf.cls = "LineWriter" =>
            /\ IF buf.kw_names
               THEN /\ buf.header_lines = 1
                    /\ buf.kw_header = None
                    /\ buf.names = Some(wlog[1].val)
               ELSE /\ buf.header_lines = 0
                    /\ buf.kw_header = "absent"
                    /\ buf.names = Nothing
            /\ buf.chunk_written >= 1 => buf.kw_names)
    /\ [][(buf.cls = "LineWriter" /\ buf.kw_names)
            => /\ buf'.kw_names
               /\ buf'.header_lines = buf.header_lines
               /\ buf'.names = buf.names
               /\ buf'.kw_header = buf.kw_header]_vars

\* C18's case: capacity 2, a header line and 5 data lines: three flushes
\* after the first written line fixed the column names.
C18_Witness ==
    /\ buf.cls = "LineWriter"
    /\ buf.chunksize = 2
    /\ b_calls = 6 /\ wlog[1].hdr
    /\ buf.chunk_written = 3
    /\ buf.header_lines = 1
    /\ buf.names = Some(1)
    /\ buf.kw_header = None

\* C18's case with capacity 1: the first flush decodes the header line alone.
C18_WitnessHeaderOnly ==
    /\ buf.cls = "LineWriter"
    /\ buf.chunksize = 1
    /\ wlog # <<>> /\ wlog[1].hdr
    /\ buf.header_lines = 1 /\ buf.kw_names
    /\ buf.chunk_written = 0

\* C19: in every state of a BufferedObjectWriter, whatever write, flush and
\* close calls led to it: n_in_buffer is the length of the buffer list;
\* n_written + n_in_buffer is the number of write() calls that returned;
\* n_written is the total size of the batches the downstream writer accepted
\* and chunk_written their number.  (A to_csv sink accepts none: its write
\* raises every time.)
C19_CounterInvariant ==
    buf.cls = "BufferedObjectWriter" =>
        /\ buf.n_in_buffer = Len(buf.buffer)
        /\ buf.n_written + buf.n_in_buffer = Len(wlog)
        /\ IF sink.kind = "recorder"
           THEN /\ sink.items = delivered
                /\ buf.n_written = Len(Concat(sink.items))
                /\ buf.chunk_written = Len(sink.items)
           ELSE /\ sink.block_written = 0
                /\ buf.n_written = 0
                /\ buf.chunk_written = 0

\* C19's case: capacity 2, five writes, a flush, a close and a sixth write:
\* 5 items in 3 accepted batches and 1 item held.
C19_Witness ==
    /\ buf.cls = "BufferedObjectWriter"
    /\ sink.kind = "recorder"
    /\ buf.chunksize = 2
    /\ b_calls = 6 /\ b_flushes = 1 /\ b_closes >= 1
    /\ b_last = "write"
    /\ buf.n_written = 5 /\ buf.chunk_written = 3
    /\ buf.n_in_buffer = 1

\* C20: the finished iterations of one LineReader over one unchanged reader
\* all yielded the same sequence of lines, whatever the number of chunks and
\* the header setting.
C20_ReiterationSame ==
    \A i, j \in 1..Len(lr_outs) : lr_outs[i] = lr_outs[j]

\* What holds of C20 in the code: the iterations agree when the reader has
\* at most one chunk or the header is disabled.
C20_WhenOneChunkOrNoHeader ==
    (Len(df) <= chunksize \/ lr_header0 = "False") => C20_ReiterationSame

====
